---- MODULE Spec2Model ----
(***************************************************************************)
(* FinanceManager: the transaction store, its JSON data file, the          *)
(* suggestion index and the backup directory, as implemented in            *)
(* src/main.py (the application with the suggestion engine) and in         *)
(* src/finance_manager.py (the modular variant without the engine).        *)
(*                                                                         *)
(* Text is a sequence of one-character strings, so that lower(), strip()   *)
(* and the keyword extraction are computed, not assumed.  Amounts are      *)
(* integers (a whole number of currency units).  A datetime is the number  *)
(* of clock ticks since the start of the run.  An optional value (None or  *)
(* a value) is the empty sequence or a one-element sequence.               *)
(***************************************************************************)
EXTENDS Integers, Sequences, FiniteSets, TLC

VARIABLES
    transactions,   \* FinanceManager.transactions: the in-memory list
    file,           \* the data file at FinanceManager.data_file
    engine,         \* SmartSuggestionEngine's four indexes and last_update
    backups,        \* the backup directory: file name -> file content
    now,            \* datetime.now()
    nextId,         \* number of ids uuid.uuid4() has handed out so far
    lastOp          \* the operation that produced this state and what it returned

vars == <<transactions, file, engine, backups, now, nextId, lastOp>>

\* ------------------------------------------------------------------ bounds

\* uuid4() is called at most MaxId times in a run (so a list holds at most MaxId records).
MaxId == 3
\* The clock runs from 0 to MaxClock.
MaxClock == 1

\* ------------------------------------------------------------------ text

None == <<>>

Some(x) == <<x>>

UpperToLower ==
    [c \in {"A","B","C","D","E","F","G","H","I","J","K","L","M",
            "N","O","P","Q","R","S","T","U","V","W","X","Y","Z"} |->
        CASE c = "A" -> "a" [] c = "B" -> "b" [] c = "C" -> "c" [] c = "D" -> "d"
          [] c = "E" -> "e" [] c = "F" -> "f" [] c = "G" -> "g" [] c = "H" -> "h"
          [] c = "I" -> "i" [] c = "J" -> "j" [] c = "K" -> "k" [] c = "L" -> "l"
          [] c = "M" -> "m" [] c = "N" -> "n" [] c = "O" -> "o" [] c = "P" -> "p"
          [] c = "Q" -> "q" [] c = "R" -> "r" [] c = "S" -> "s" [] c = "T" -> "t"
          [] c = "U" -> "u" [] c = "V" -> "v" [] c = "W" -> "w" [] c = "X" -> "x"
          [] c = "Y" -> "y" [] c = "Z" -> "z"]

\* str.lower()
lower(s) ==
    [i \in 1..Len(s) |-> IF s[i] \in DOMAIN UpperToLower THEN UpperToLower[s[i]] ELSE s[i]]

Whitespace == {" "}

\* the characters the pattern [^\w\s] matches
Punctuation == {".", ",", "-", "/", "!", "(", ")"}

RECURSIVE lstrip(_)
lstrip(s) ==
    IF s # <<>> /\ Head(s) \in Whitespace THEN lstrip(Tail(s)) ELSE s

RECURSIVE rstrip(_)
rstrip(s) ==
    IF s # <<>> /\ s[Len(s)] \in Whitespace THEN rstrip(SubSeq(s, 1, Len(s) - 1)) ELSE s

\* str.strip()
strip(s) == rstrip(lstrip(s))

\* str.split(): the maximal runs of non-whitespace characters, in order
RECURSIVE split(_)
split(s) ==
    LET t == lstrip(s)
        RECURSIVE wordEnd(_)
        wordEnd(i) == IF i <= Len(t) /\ t[i] \notin Whitespace THEN wordEnd(i + 1) ELSE i
    IN  IF t = <<>> THEN <<>>
        ELSE LET e == wordEnd(1)
             IN  <<SubSeq(t, 1, e - 1)>> \o split(SubSeq(t, e, Len(t)))

\* ------------------------------------------------------------------ data model

\* TransactionType: member name -> value
TransactionType == [RECEITA |-> "receita", DESPESA |-> "despesa"]

\* Category: member name -> value
Category ==
    [SALARIO |-> "Salário", FREELANCE |-> "Freelance", INVESTIMENTOS |-> "Investimentos",
     VENDAS |-> "Vendas", BONUS |-> "Bônus", OUTROS_RECEITA |-> "Outros (Receita)",
     ALIMENTACAO |-> "Alimentação", TRANSPORTE |-> "Transporte", MORADIA |-> "Moradia",
     SAUDE |-> "Saúde", EDUCACAO |-> "Educação", ENTRETENIMENTO |-> "Entretenimento",
     COMPRAS |-> "Compras", CONTAS |-> "Contas", VESTUARIO |-> "Vestuário",
     TECNOLOGIA |-> "Tecnologia", OUTROS_DESPESA |-> "Outros (Despesa)"]

\* Enum(value): the member with that value; no member means ValueError
HasMember(enum, value) == \E m \in DOMAIN enum : enum[m] = value

MemberOf(enum, value) == CHOOSE m \in DOMAIN enum : enum[m] = value

\* datetime.isoformat(): the text of a datetime
isoformat(d) == [text |-> "iso-8601", ticks |-> d]

\* datetime.fromisoformat() accepts exactly the texts isoformat() writes
IsIsoFormat(s) == s.text = "iso-8601"

fromisoformat(s) == s.ticks

\* Transaction.to_dict
to_dict(t) ==
    [id |-> t.id,
     description |-> t.description,
     amount |-> t.amount,
     transaction_type |-> TransactionType[t.transaction_type],
     category |-> Category[t.category],
     date |-> isoformat(t.date),
     notes |-> t.notes]

\* Transaction.from_dict raises on an unknown enum value or an unreadable date
FromDictRaises(data) ==
    \/ ~HasMember(TransactionType, data.transaction_type)
    \/ ~HasMember(Category, data.category)
    \/ ~IsIsoFormat(data.date)

\* a from_dict that reads the notes under a key to_dict does not write
from_dict_losing_notes(data) ==
    [id |-> data.id,
     description |-> data.description,
     amount |-> data.amount,
     transaction_type |-> MemberOf(TransactionType, data.transaction_type),
     category |-> MemberOf(Category, data.category),
     date |-> fromisoformat(data.date),
     notes |-> None]

\* Transaction.from_dict
from_dict(data) ==
    [id |-> data.id,
     description |-> data.description,
     amount |-> data.amount,
     transaction_type |-> MemberOf(TransactionType, data.transaction_type),
     category |-> MemberOf(Category, data.category),
     date |-> fromisoformat(data.date),
     notes |-> data.notes]

abs(x) == IF x < 0 THEN -x ELSE x

\* ------------------------------------------------------------------ maps

\* a dict (or defaultdict) is a function on its keys
EmptyMap == [k \in {} |-> <<>>]

Put(m, k, v) == [x \in (DOMAIN m) \cup {k} |-> IF x = k THEN v ELSE m[x]]

\* dict.get(k, default)
Get(m, k, default) == IF k \in DOMAIN m THEN m[k] ELSE default

Contains(seq, x) == \E i \in 1..Len(seq) : seq[i] = x

\* ------------------------------------------------------------------ SmartSuggestionEngine

\* SmartSuggestionEngine.__init__
NewEngine ==
    [category_patterns |-> EmptyMap,
     description_history |-> EmptyMap,
     amount_patterns |-> EmptyMap,
     word_frequency |-> EmptyMap,
     last_update |-> None]

stop_words ==
    {<<"c","o","m">>, <<"p","a","r","a">>, <<"p","o","r">>, <<"q","u","e">>,
     <<"u","m","a">>, <<"d","o","s">>, <<"d","a","s">>, <<"t","h","e">>,
     <<"a","n","d">>, <<"o","r">>, <<"m","a","s">>, <<"a","t","e">>,
     <<"s","e","m">>, <<"s","o","b">>, <<"s","o","b","r","e">>,
     <<"t","r","a","s">>, <<"e","n","t","r","e">>, <<"a","n","t","e">>}

\* the longest keyword list _extract_keywords returns
MaxKeywords == 4

\* the words of length > 2 that are no stop words, in order
RECURSIVE SelectKeywords(_)
SelectKeywords(words) ==
    IF words = <<>> THEN <<>>
    ELSE LET w == strip(Head(words))
             rest == SelectKeywords(Tail(words))
         IN  IF Len(w) > 2 /\ w \notin stop_words THEN <<w>> \o rest ELSE rest

\* SmartSuggestionEngine._extract_keywords
extract_keywords(description) ==
    LET low == lower(description)
        cleaned == [i \in 1..Len(low) |-> IF low[i] \in Punctuation THEN " " ELSE low[i]]
        keywords == SelectKeywords(split(cleaned))
    IN  SubSeq(keywords, 1, IF Len(keywords) < MaxKeywords THEN Len(keywords) ELSE MaxKeywords)

\* the body of the keyword loop of update_suggestions, for one transaction
RECURSIVE LearnWords(_, _, _)
LearnWords(eng, words, category) ==
    IF words = <<>> THEN eng
    ELSE LET word == Head(words)
             votes == Get(eng.category_patterns, word, <<>>)
             e2 == [eng EXCEPT
                      !.word_frequency = Put(@, word, Get(@, word, 0) + 1),
                      !.category_patterns =
                          Put(@, word, IF Contains(votes, category) THEN votes
                                       ELSE Append(votes, category))]
         IN  LearnWords(e2, Tail(words), category)

\* the body of the transaction loop of update_suggestions
Learn(eng, transaction) ==
    LET trans_type == TransactionType[transaction.transaction_type]
        description == strip(lower(transaction.description))
        seen == Get(eng.description_history, trans_type, <<>>)
        e1 == [eng EXCEPT
                 !.description_history =
                     Put(@, trans_type, IF Contains(seen, description) THEN seen
                                        ELSE Append(seen, description))]
        e2 == LearnWords(e1, extract_keywords(description), transaction.category)
    IN  [e2 EXCEPT
           !.amount_patterns =
               Put(@, description, Append(Get(@, description, <<>>), transaction.amount))]

RECURSIVE LearnAll(_, _)
LearnAll(eng, txs) ==
    IF txs = <<>> THEN eng ELSE LearnAll(Learn(eng, Head(txs)), Tail(txs))

\* SmartSuggestionEngine.update_suggestions
update_suggestions(eng, txs, clock) ==
    IF txs = <<>> THEN eng
    ELSE LET cleared == [eng EXCEPT !.category_patterns = EmptyMap,
                                      !.description_history = EmptyMap,
                                      !.amount_patterns = EmptyMap,
                                      !.word_frequency = EmptyMap]
         IN  [LearnAll(cleared, txs) EXCEPT !.last_update = Some(clock)]

\* ------------------------------------------------------------------ the data file

FileMissing == [state |-> "missing", transactions |-> <<>>, saved_at |-> None]

\* a file json.load cannot parse (not JSON, empty, or cut short)
FileGarbage == [state |-> "garbage", transactions |-> <<>>, saved_at |-> None]

\* the document save_data writes ('version' and 'total_transactions' are written
\* too; nothing reads them back)
Document(txs, clock) ==
    [state |-> "json",
     transactions |-> [i \in 1..Len(txs) |-> to_dict(txs[i])],
     saved_at |-> Some(isoformat(clock))]

\* how a write of the data file can end: written; open() raises and the file is
\* untouched; open() truncates and the write raises before the document is complete
WriteOutcomes == {"written", "open_raises", "dump_raises"}

\* a save_data that writes nothing
save_data_nothing(txs, clock, old, outcome) == old

\* FinanceManager.save_data: the data file afterwards
save_data(txs, clock, old, outcome) ==
    CASE outcome = "written" -> Document(txs, clock)
      [] outcome = "open_raises" -> old
      [] outcome = "dump_raises" -> FileGarbage

\* a load_data that skips the records from_dict cannot read
load_data_skipping(f) ==
    LET RECURSIVE readable(_)
        readable(recs) ==
            IF recs = <<>> THEN <<>>
            ELSE (IF FromDictRaises(Head(recs)) THEN <<>> ELSE <<from_dict(Head(recs))>>)
                 \o readable(Tail(recs))
    IN  IF f.state = "json" THEN readable(f.transactions) ELSE <<>>

\* FinanceManager.load_data: the in-memory list afterwards
load_data(f) ==
    IF f.state = "missing" THEN <<>>
    ELSE IF f.state = "garbage" THEN <<>>
    ELSE IF \E i \in 1..Len(f.transactions) : FromDictRaises(f.transactions[i]) THEN <<>>
    ELSE [i \in 1..Len(f.transactions) |-> from_dict(f.transactions[i])]

\* ------------------------------------------------------------------ inputs

Uber == <<"U","b","e","r">>

PostoShell == <<"P","o","s","t","o"," ","S","h","e","l","l">>

\* the calls of add_transaction the model makes: two valid ones (an expense, and an
\* income with no date given), and one call for each way of being invalid
AddInputs ==
    {[description |-> Uber, amount |-> 2, transaction_type |-> "DESPESA",
      category |-> "TRANSPORTE", date |-> Some(1), notes |-> None],
     [description |-> PostoShell, amount |-> 1, transaction_type |-> "RECEITA",
      category |-> "SALARIO", date |-> None, notes |-> Some("n")],
     [description |-> Uber, amount |-> 0, transaction_type |-> "DESPESA",
      category |-> "TRANSPORTE", date |-> Some(1), notes |-> None],
     [description |-> Uber, amount |-> -2, transaction_type |-> "DESPESA",
      category |-> "TRANSPORTE", date |-> Some(2), notes |-> None],
     [description |-> <<>>, amount |-> 2, transaction_type |-> "DESPESA",
      category |-> "TRANSPORTE", date |-> Some(2), notes |-> None],
     [description |-> Uber, amount |-> 2, transaction_type |-> "RECEITA",
      category |-> "TRANSPORTE", date |-> Some(1), notes |-> None]}

\* the dates get_transactions is called with
DateInputs == {None, Some(0), Some(1), Some(2)}

\* the ids remove_transaction is called with: every id handed out, and one never handed out
IdInputs == 1..(MaxId + 1)

\* ------------------------------------------------------------------ FinanceManager (src/main.py)

\* an id taken from the size of the list: the id of a removed record comes back
uuid4_from_count == Len(transactions) + 1

\* str(uuid.uuid4()): an id no earlier call returned
uuid4 == nextId + 1

\* FinanceManager.add_transaction
add_transaction(in, outcome) ==
    LET transaction ==
            [id |-> uuid4,
             description |-> in.description,
             amount |-> abs(in.amount),
             transaction_type |-> in.transaction_type,
             category |-> in.category,
             date |-> IF in.date = None THEN now ELSE in.date[1],
             notes |-> in.notes]
        appended == Append(transactions, transaction)
    IN  /\ nextId < MaxId
        /\ nextId' = nextId + 1
        /\ transactions' = appended
        /\ file' = save_data(appended, now, file, outcome)
        /\ engine' = update_suggestions(engine, appended, now)
        /\ lastOp' = [op |-> "add_transaction", result |-> TRUE]
        /\ UNCHANGED <<backups, now>>

\* a removal that matches on the description of the record with that id
WithoutDescriptionOf(txs, transaction_id) ==
    LET hit == {i \in 1..Len(txs) : txs[i].id = transaction_id}
        gone == {i \in 1..Len(txs) : \E h \in hit : txs[i].description = txs[h].description}
        RECURSIVE keep(_)
        keep(i) == IF i > Len(txs) THEN <<>>
                   ELSE (IF i \in gone THEN <<>> ELSE <<txs[i]>>) \o keep(i + 1)
    IN  keep(1)

\* [t for t in self.transactions if t.id != transaction_id]
RECURSIVE WithoutId(_, _)
WithoutId(txs, transaction_id) ==
    IF txs = <<>> THEN <<>>
    ELSE IF Head(txs).id # transaction_id
         THEN <<Head(txs)>> \o WithoutId(Tail(txs), transaction_id)
         ELSE WithoutId(Tail(txs), transaction_id)

\* FinanceManager.remove_transaction
remove_transaction(transaction_id, outcome) ==
    LET old_count == Len(transactions)
        kept == WithoutId(transactions, transaction_id)
    IN  /\ transactions' = kept
        /\ IF Len(kept) < old_count
           THEN /\ file' = save_data(kept, now, file, outcome)
                /\ engine' = update_suggestions(engine, kept, now)
                /\ lastOp' = [op |-> "remove_transaction", result |-> TRUE]
           ELSE /\ UNCHANGED <<file, engine>>
                /\ lastOp' = [op |-> "remove_transaction", result |-> FALSE]
        /\ UNCHANGED <<backups, now, nextId>>

\* FinanceApp.reload_data: load_data, then update_suggestions
reload_data ==
    /\ transactions' = load_data(file)
    /\ engine' = update_suggestions(engine, load_data(file), now)
    /\ lastOp' = [op |-> "reload_data", result |-> TRUE]
    /\ UNCHANGED <<file, backups, now, nextId>>

\* FinanceManager.save_data, called on its own
persist(outcome) ==
    /\ file' = save_data(transactions, now, file, outcome)
    /\ lastOp' = [op |-> "save_data", result |-> TRUE]
    /\ UNCHANGED <<transactions, engine, backups, now, nextId>>

\* [t for t in transactions if t.date >= start_date]
RECURSIVE FromDate(_, _)
FromDate(txs, start_date) ==
    IF txs = <<>> THEN <<>>
    ELSE IF Head(txs).date >= start_date
         THEN <<Head(txs)>> \o FromDate(Tail(txs), start_date)
         ELSE FromDate(Tail(txs), start_date)

\* [t for t in transactions if t.date <= end_date]
RECURSIVE UntilDate(_, _)
UntilDate(txs, end_date) ==
    IF txs = <<>> THEN <<>>
    ELSE IF Head(txs).date <= end_date
         THEN <<Head(txs)>> \o UntilDate(Tail(txs), end_date)
         ELSE UntilDate(Tail(txs), end_date)

\* sorted(txs, key=lambda x: x.date)[::-1]: latest first, equal dates reversed
RECURSIVE InsertByDateDescUnstable(_, _)
InsertByDateDescUnstable(sorted, t) ==
    IF sorted = <<>> THEN <<t>>
    ELSE IF Head(sorted).date > t.date
         THEN <<Head(sorted)>> \o InsertByDateDescUnstable(Tail(sorted), t)
         ELSE <<t>> \o sorted

\* where t goes in a list sorted by date, latest first: behind every record that
\* is not earlier than t (sorted() is stable, with reverse=True too)
RECURSIVE InsertByDateDesc(_, _)
InsertByDateDesc(sorted, t) ==
    IF sorted = <<>> THEN <<t>>
    ELSE IF Head(sorted).date >= t.date
         THEN <<Head(sorted)>> \o InsertByDateDesc(Tail(sorted), t)
         ELSE <<t>> \o sorted

\* sorted(txs, key=lambda x: x.date, reverse=True)
RECURSIVE SortedByDateDesc(_)
SortedByDateDesc(txs) ==
    IF txs = <<>> THEN <<>>
    ELSE InsertByDateDesc(SortedByDateDesc(SubSeq(txs, 1, Len(txs) - 1)), txs[Len(txs)])

\* FinanceManager.get_transactions on a given list
ListBetween(txs, start_date, end_date) ==
    LET from == IF start_date # None THEN FromDate(txs, start_date[1]) ELSE txs
        until == IF end_date # None THEN UntilDate(from, end_date[1]) ELSE from
    IN  SortedByDateDesc(until)

\* FinanceManager.get_transactions
get_transactions(start_date, end_date) == ListBetween(transactions, start_date, end_date)

\* sum(t.amount for t in txs if t.transaction_type == kind)
RECURSIVE SumOfKind(_, _)
SumOfKind(txs, kind) ==
    IF txs = <<>> THEN 0
    ELSE (IF Head(txs).transaction_type = kind THEN Head(txs).amount ELSE 0)
         + SumOfKind(Tail(txs), kind)

\* calculate_balance with the balance computed as the sum of both totals
BalanceAdding(start_date, end_date) ==
    LET txs == get_transactions(start_date, end_date)
        total_receitas == SumOfKind(txs, "RECEITA")
        total_despesas == SumOfKind(txs, "DESPESA")
    IN  [receitas |-> total_receitas, despesas |-> total_despesas,
         saldo |-> total_receitas + total_despesas]

\* FinanceManager.calculate_balance
calculate_balance(start_date, end_date) ==
    LET txs == get_transactions(start_date, end_date)
        total_receitas == SumOfKind(txs, "RECEITA")
        total_despesas == SumOfKind(txs, "DESPESA")
    IN  [receitas |-> total_receitas, despesas |-> total_despesas,
         saldo |-> total_receitas - total_despesas]

\* the loop of get_category_summary: each amount goes to the entry of its category's
\* value, in the income map for RECEITA and in the expense map for anything else
RECURSIVE SummaryOf(_, _)
SummaryOf(summary, txs) ==
    IF txs = <<>> THEN summary
    ELSE LET transaction == Head(txs)
             label == Category[transaction.category]
             added == IF transaction.transaction_type = "RECEITA"
                      THEN [summary EXCEPT !.receitas =
                               Put(@, label, Get(@, label, 0) + transaction.amount)]
                      ELSE [summary EXCEPT !.despesas =
                               Put(@, label, Get(@, label, 0) + transaction.amount)]
         IN  SummaryOf(added, Tail(txs))

\* FinanceManager.get_category_summary
get_category_summary(start_date, end_date) ==
    SummaryOf([receitas |-> EmptyMap, despesas |-> EmptyMap],
              get_transactions(start_date, end_date))

\* the categories _is_category_compatible takes for income
receita_categories == {"SALARIO", "FREELANCE", "INVESTIMENTOS", "VENDAS", "BONUS", "OUTROS_RECEITA"}

\* a test that takes every category for every kind
compatible_with_any(category, transaction_type) == TRUE

\* SmartSuggestionEngine._is_category_compatible
is_category_compatible(category, transaction_type) ==
    IF transaction_type = "receita"
    THEN category \in receita_categories
    ELSE category \notin receita_categories

\* ------------------------------------------------------------------ SmartSuggestionEngine: queries

LowerToUpper ==
    [c \in {UpperToLower[u] : u \in DOMAIN UpperToLower} |->
        CHOOSE u \in DOMAIN UpperToLower : UpperToLower[u] = c]

Letters == DOMAIN UpperToLower \cup DOMAIN LowerToUpper

\* str.title(): a letter that follows no letter goes to upper case, every other
\* letter to lower case
title(s) ==
    [i \in 1..Len(s) |->
        IF i = 1 \/ s[i - 1] \notin Letters
        THEN (IF s[i] \in DOMAIN LowerToUpper THEN LowerToUpper[s[i]] ELSE s[i])
        ELSE (IF s[i] \in DOMAIN UpperToLower THEN UpperToLower[s[i]] ELSE s[i])]

\* a test that takes an occurrence anywhere in s for a prefix
occurs_in(s, prefix) ==
    \E i \in 0..(Len(s) - Len(prefix)) : SubSeq(s, i + 1, i + Len(prefix)) = prefix

\* str.startswith()
startswith(s, prefix) ==
    Len(prefix) <= Len(s) /\ SubSeq(s, 1, Len(prefix)) = prefix

\* part in s, for two strings
substring_in(part, s) ==
    \E i \in 0..(Len(s) - Len(part)) : SubSeq(s, i + 1, i + Len(part)) = part

\* counter[key] += n: a Counter keeps its keys in the order of their first insertion
Count(counter, key, n) ==
    IF \E i \in 1..Len(counter) : counter[i].key = key
    THEN [i \in 1..Len(counter) |->
             IF counter[i].key = key
             THEN [key |-> key, count |-> counter[i].count + n]
             ELSE counter[i]]
    ELSE Append(counter, [key |-> key, count |-> n])

\* Counter(items)
RECURSIVE CounterOf(_)
CounterOf(items) ==
    IF items = <<>> THEN <<>>
    ELSE Count(CounterOf(SubSeq(items, 1, Len(items) - 1)), items[Len(items)], 1)

\* where an entry goes in a list sorted by count, highest first: behind every
\* entry whose count is not lower (equal counts stay in insertion order)
RECURSIVE InsertByCountDesc(_, _)
InsertByCountDesc(sorted, e) ==
    IF sorted = <<>> THEN <<e>>
    ELSE IF Head(sorted).count >= e.count
         THEN <<Head(sorted)>> \o InsertByCountDesc(Tail(sorted), e)
         ELSE <<e>> \o sorted

RECURSIVE SortedByCountDesc(_)
SortedByCountDesc(counter) ==
    IF counter = <<>> THEN <<>>
    ELSE InsertByCountDesc(SortedByCountDesc(SubSeq(counter, 1, Len(counter) - 1)),
                           counter[Len(counter)])

\* seq[:n], for n >= 0
FirstN(seq, n) == SubSeq(seq, 1, IF n < Len(seq) THEN n ELSE Len(seq))

\* Counter.most_common(n)
most_common(counter, n) == FirstN(SortedByCountDesc(counter), n)

\* list(dict.fromkeys(seq)): the first occurrence of every element, in order
RECURSIVE Unique(_)
Unique(seq) ==
    IF seq = <<>> THEN <<>>
    ELSE LET front == Unique(SubSeq(seq, 1, Len(seq) - 1))
         IN  IF Contains(front, seq[Len(seq)]) THEN front ELSE Append(front, seq[Len(seq)])

\* [f(x) for x in seq if Test(x)], for the two loops of get_description_suggestions
RECURSIVE TitlesWhere(_, _, _)
TitlesWhere(descriptions, partial_lower, prefixed) ==
    IF descriptions = <<>> THEN <<>>
    ELSE LET description == Head(descriptions)
             taken == IF prefixed
                      THEN startswith(description, partial_lower)
                      ELSE /\ substring_in(partial_lower, description)
                           /\ ~startswith(description, partial_lower)
         IN  (IF taken THEN <<title(description)>> ELSE <<>>)
             \o TitlesWhere(Tail(descriptions), partial_lower, prefixed)

\* SmartSuggestionEngine.get_description_suggestions
get_description_suggestions(eng, partial_text, transaction_type, limit) ==
    LET descriptions == Get(eng.description_history, transaction_type, <<>>)
    IN  IF Len(partial_text) < 1
        THEN LET popular == most_common(CounterOf(descriptions), limit)
             IN  [i \in 1..Len(popular) |-> title(popular[i].key)]
        ELSE LET partial_lower == lower(partial_text)
                 suggestions == TitlesWhere(descriptions, partial_lower, TRUE)
                                \o TitlesWhere(descriptions, partial_lower, FALSE)
             IN  FirstN(Unique(suggestions), limit)

\* the inner loop of suggest_category: the votes of one keyword
RECURSIVE ScoreVotes(_, _, _, _)
ScoreVotes(category_scores, votes, weight, transaction_type) ==
    IF votes = <<>> THEN category_scores
    ELSE ScoreVotes(IF is_category_compatible(Head(votes), transaction_type)
                    THEN Count(category_scores, Head(votes), weight)
                    ELSE category_scores,
                    Tail(votes), weight, transaction_type)

\* the outer loop of suggest_category
RECURSIVE ScoreKeywords(_, _, _, _)
ScoreKeywords(eng, category_scores, keywords, transaction_type) ==
    IF keywords = <<>> THEN category_scores
    ELSE ScoreKeywords(eng,
                       ScoreVotes(category_scores,
                                  Get(eng.category_patterns, Head(keywords), <<>>),
                                  Get(eng.word_frequency, Head(keywords), 1),
                                  transaction_type),
                       Tail(keywords), transaction_type)

\* SmartSuggestionEngine.suggest_category
suggest_category(eng, description, transaction_type) ==
    LET keywords == extract_keywords(description)
        category_scores == ScoreKeywords(eng, <<>>, keywords, transaction_type)
    IN  IF category_scores # <<>>
        THEN Some(most_common(category_scores, 1)[1].key)
        ELSE None

RECURSIVE SumSeq(_)
SumSeq(amounts) == IF amounts = <<>> THEN 0 ELSE Head(amounts) + SumSeq(Tail(amounts))

\* the first amount recorded, instead of the mean
MeanOfFirst(amounts) == [num |-> Head(amounts), den |-> 1]

\* sum(amounts) / len(amounts): the quotient, as numerator and denominator
Mean(amounts) == [num |-> SumSeq(amounts), den |-> Len(amounts)]

\* set(keywords)
KeywordSet(keywords) == {keywords[i] : i \in 1..Len(keywords)}

Max(a, b) == IF a >= b THEN a ELSE b

\* a test without the threshold: one common keyword is enough
SharesKeyword(keywords, stored_keywords) ==
    KeywordSet(keywords) \cap KeywordSet(stored_keywords) # {}

\* len(common_keywords) / max(len(keywords), len(stored_keywords)) > 0.3
Similar(keywords, stored_keywords) ==
    LET common_keywords == KeywordSet(keywords) \cap KeywordSet(stored_keywords)
    IN  /\ common_keywords # {}
        /\ 10 * Cardinality(common_keywords) > 3 * Max(Len(keywords), Len(stored_keywords))

\* the loop of suggest_amount over amount_patterns.items(); the amounts are only
\* summed and counted, so the order they are collected in does not show
RECURSIVE SimilarAmounts(_, _, _)
SimilarAmounts(eng, keywords, stored) ==
    IF stored = {} THEN <<>>
    ELSE LET stored_desc == CHOOSE d \in stored : TRUE
             rest == SimilarAmounts(eng, keywords, stored \ {stored_desc})
         IN  IF Similar(keywords, extract_keywords(stored_desc))
             THEN eng.amount_patterns[stored_desc] \o rest
             ELSE rest

\* SmartSuggestionEngine.suggest_amount
suggest_amount(eng, description) ==
    LET description_lower == strip(lower(description))
    IN  IF description_lower \in DOMAIN eng.amount_patterns
        THEN Some(Mean(eng.amount_patterns[description_lower]))
        ELSE LET keywords == extract_keywords(description_lower)
                 similar_amounts == SimilarAmounts(eng, keywords, DOMAIN eng.amount_patterns)
             IN  IF similar_amounts # <<>> THEN Some(Mean(similar_amounts)) ELSE None

\* SmartSuggestionEngine.get_popular_transactions
get_popular_transactions(eng, transaction_type, limit) ==
    LET descriptions == Get(eng.description_history, transaction_type, <<>>)
        popular == most_common(CounterOf(descriptions), limit)
    IN  [i \in 1..Len(popular) |->
            [description |-> title(popular[i].key),
             category |-> suggest_category(eng, popular[i].key, transaction_type),
             amount |-> suggest_amount(eng, popular[i].key),
             frequency |-> popular[i].count]]

\* ------------------------------------------------------------------ the backup directory

\* datetime.strftime(format): the text of a datetime in that format
strftime(d, format) == [text |-> format, ticks |-> d]

\* datetime.strptime(text, format) raises ValueError
StrptimeRaises(stamp, format) == stamp.text # format

\* datetime.strptime(text, format)
strptime(stamp, format) == stamp.ticks

\* "financial_data_" + now.strftime("%Y-%m-%d_%H-%M-%S") + ".json"
BackupName(clock) ==
    [prefix |-> "financial_data_", stamp |-> strftime(clock, "%Y-%m-%d_%H-%M-%S")]

\* "pre_restore_" + now.strftime("%Y%m%d_%H%M%S") + ".json"
PreRestoreName(clock) ==
    [prefix |-> "pre_restore_", stamp |-> strftime(clock, "%Y%m%d_%H%M%S")]

\* a file name that is not in the backup directory
NoSuchBackup == BackupName(-1)

\* a < b for two file names, as Python compares strings: by prefix first
\* ("current_backup_" < "financial_data_" < "pre_restore_"); under one prefix a
\* timestamp (it starts with a digit) comes before a text that starts with a
\* letter, and two timestamps of one format are in the order of their datetimes
NameBefore(a, b) ==
    LET PrefixRank(n) == CASE n.prefix = "current_backup_" -> 1
                           [] n.prefix = "financial_data_" -> 2
                           [] n.prefix = "pre_restore_" -> 3
        IsTimestamp(n) == n.stamp.text \in {"%Y-%m-%d_%H-%M-%S", "%Y%m%d_%H%M%S"}
    IN  \/ PrefixRank(a) < PrefixRank(b)
        \/ /\ PrefixRank(a) = PrefixRank(b)
           /\ \/ IsTimestamp(a) /\ ~IsTimestamp(b)
              \/ IsTimestamp(a) /\ IsTimestamp(b) /\ a.stamp.ticks < b.stamp.ticks

\* max(names)
MaxName(names) == CHOOSE n \in names : \A m \in names : m = n \/ NameBefore(m, n)

\* sorted(names, reverse=True)
RECURSIVE SortedNamesDesc(_)
SortedNamesDesc(names) ==
    IF names = {} THEN <<>>
    ELSE <<MaxName(names)>> \o SortedNamesDesc(names \ {MaxName(names)})

\* [f for f in os.listdir(backup_path) if f.startswith('financial_data_') and
\* f.endswith('.json')]
BackupFiles == {n \in DOMAIN backups : n.prefix = "financial_data_"}

\* FinanceManager.list_backups: the file names of the entries returned
list_backups == SortedNamesDesc(BackupFiles)

\* a create_backup that does not look whether the data file exists
create_backup_unchecked ==
    /\ backups' = Put(backups, BackupName(now), file)
    /\ lastOp' = [op |-> "create_backup", result |-> TRUE]
    /\ UNCHANGED <<transactions, file, engine, now, nextId>>

\* FinanceManager.create_backup
create_backup ==
    /\ IF file.state = "missing"
       THEN /\ UNCHANGED backups
            /\ lastOp' = [op |-> "create_backup", result |-> FALSE]
       ELSE /\ backups' = Put(backups, BackupName(now), file)
            /\ lastOp' = [op |-> "create_backup", result |-> TRUE]
    /\ UNCHANGED <<transactions, file, engine, now, nextId>>

\* a restore_backup that does not look whether the backup exists: with no such
\* file the data file is left as it is and read again
restore_backup_unchecked(backup_filename, outcome) ==
    LET snapshot == IF file.state # "missing"
                    THEN Put(backups, PreRestoreName(now), file)
                    ELSE backups
        restored == Get(snapshot, backup_filename, file)
    IN  /\ backups' = snapshot
        /\ file' = restored
        /\ transactions' = load_data(restored)
        /\ engine' = update_suggestions(engine, load_data(restored), now)
        /\ lastOp' = [op |-> "restore_backup", result |-> TRUE]
        /\ UNCHANGED <<now, nextId>>

\* a restore_backup that overwrites the data file first and takes the safety copy
\* afterwards
restore_backup_then_snapshot(backup_filename, outcome) ==
    IF backup_filename \in DOMAIN backups
    THEN /\ file' = backups[backup_filename]
         /\ backups' = Put(backups, PreRestoreName(now), backups[backup_filename])
         /\ transactions' = load_data(backups[backup_filename])
         /\ engine' = update_suggestions(engine, load_data(backups[backup_filename]), now)
         /\ lastOp' = [op |-> "restore_backup", result |-> TRUE]
         /\ UNCHANGED <<now, nextId>>
    ELSE /\ lastOp' = [op |-> "restore_backup", result |-> FALSE]
         /\ UNCHANGED <<transactions, file, engine, backups, now, nextId>>

\* FinanceManager.restore_backup; outcome is how the copy of the current data file
\* to its pre_restore_ name ends (the copy is made only when the data file exists)
restore_backup(backup_filename, outcome) ==
    IF backup_filename \in DOMAIN backups
    THEN IF file.state # "missing" /\ outcome # "written"
         THEN /\ backups' = IF outcome = "open_raises" THEN backups
                            ELSE Put(backups, PreRestoreName(now), FileGarbage)
              /\ lastOp' = [op |-> "restore_backup", result |-> FALSE]
              /\ UNCHANGED <<transactions, file, engine, now, nextId>>
         ELSE LET snapshot == IF file.state # "missing"
                              THEN Put(backups, PreRestoreName(now), file)
                              ELSE backups
                  restored == snapshot[backup_filename]
              IN  /\ backups' = snapshot
                  /\ file' = restored
                  /\ transactions' = load_data(restored)
                  /\ engine' = update_suggestions(engine, load_data(restored), now)
                  /\ lastOp' = [op |-> "restore_backup", result |-> TRUE]
                  /\ UNCHANGED <<now, nextId>>
    ELSE /\ lastOp' = [op |-> "restore_backup", result |-> FALSE]
         /\ UNCHANGED <<transactions, file, engine, backups, now, nextId>>

\* the ticks of the clock that make one day
TicksPerDay == 2

\* timedelta.days: the whole days of a difference of two datetimes, rounded down
days(delta) == delta \div TicksPerDay

\* len(date_part.split('_')): the timestamps have two parts, and so has every text
\* of this model but "copy"
PartsOf(stamp) == IF stamp.text = "copy" THEN 1 ELSE 2

\* a should_backup that asks for more than backup_interval whole days
should_backup_after(backup_interval) ==
    IF BackupFiles = {} THEN TRUE
    ELSE LET date_part == MaxName(BackupFiles).stamp
         IN  IF PartsOf(date_part) >= 2
             THEN IF StrptimeRaises(date_part, "%Y-%m-%d_%H-%M-%S") THEN TRUE
                  ELSE days(now - strptime(date_part, "%Y-%m-%d_%H-%M-%S")) > backup_interval
             ELSE TRUE

\* should_backup as FinanceManager._check_backup computes it: parts[0] and
\* parts[1] with ':' for '-' are parsed with "%Y-%m-%d %H:%M:%S", which is the
\* parse of the date part with "%Y-%m-%d_%H-%M-%S"
should_backup(backup_interval) ==
    IF BackupFiles = {} THEN TRUE
    ELSE LET date_part == MaxName(BackupFiles).stamp
         IN  IF PartsOf(date_part) >= 2
             THEN IF StrptimeRaises(date_part, "%Y-%m-%d_%H-%M-%S") THEN TRUE
                  ELSE days(now - strptime(date_part, "%Y-%m-%d_%H-%M-%S")) >= backup_interval
             ELSE TRUE

\* FinanceManager._check_backup with backup_interval_days = backup_interval
_check_backup(backup_interval) ==
    IF file.state # "missing" /\ should_backup(backup_interval)
    THEN create_backup
    ELSE /\ lastOp' = [op |-> "_check_backup", result |-> FALSE]
         /\ UNCHANGED <<transactions, file, engine, backups, now, nextId>>

\* ------------------------------------------------------------------ FinanceManager (src/finance_manager.py)

\* FinanceManager.add_transaction of finance_manager.py: there is no suggestion engine
fm_add_transaction(in, outcome) ==
    LET transaction ==
            [id |-> uuid4,
             description |-> in.description,
             amount |-> abs(in.amount),
             transaction_type |-> in.transaction_type,
             category |-> in.category,
             date |-> IF in.date = None THEN now ELSE in.date[1],
             notes |-> in.notes]
        appended == Append(transactions, transaction)
    IN  /\ nextId < MaxId
        /\ nextId' = nextId + 1
        /\ transactions' = appended
        /\ file' = save_data(appended, now, file, outcome)
        /\ lastOp' = [op |-> "add_transaction", result |-> TRUE]
        /\ UNCHANGED <<engine, backups, now>>

\* FinanceManager.remove_transaction of finance_manager.py: saves and returns True
\* whether or not a record had the id
fm_remove_transaction(transaction_id, outcome) ==
    /\ transactions' = WithoutId(transactions, transaction_id)
    /\ file' = save_data(WithoutId(transactions, transaction_id), now, file, outcome)
    /\ lastOp' = [op |-> "remove_transaction", result |-> TRUE]
    /\ UNCHANGED <<engine, backups, now, nextId>>

\* FinanceManager.__init__ of finance_manager.py, on a restart with automatic backups off
fm_init ==
    /\ transactions' = load_data(file)
    /\ lastOp' = [op |-> "init", result |-> TRUE]
    /\ UNCHANGED <<file, engine, backups, now, nextId>>

\* "current_backup_" + now.strftime("%Y%m%d_%H%M%S") + ".json"
CurrentBackupName(clock) ==
    [prefix |-> "current_backup_", stamp |-> strftime(clock, "%Y%m%d_%H%M%S")]

\* FinanceManager.create_backup of finance_manager.py
fm_create_backup ==
    /\ IF file.state # "missing"
       THEN /\ backups' = Put(backups, BackupName(now), file)
            /\ lastOp' = [op |-> "create_backup", result |-> TRUE]
       ELSE /\ UNCHANGED backups
            /\ lastOp' = [op |-> "create_backup", result |-> FALSE]
    /\ UNCHANGED <<transactions, file, engine, now, nextId>>

\* FinanceManager.restore_backup of finance_manager.py, every copy succeeding
fm_restore_backup(backup_filename) ==
    IF backup_filename \in DOMAIN backups
    THEN LET snapshot == IF file.state # "missing"
                         THEN Put(backups, CurrentBackupName(now), file)
                         ELSE backups
             restored == snapshot[backup_filename]
         IN  /\ backups' = snapshot
             /\ file' = restored
             /\ transactions' = load_data(restored)
             /\ lastOp' = [op |-> "restore_backup", result |-> TRUE]
             /\ UNCHANGED <<engine, now, nextId>>
    ELSE /\ lastOp' = [op |-> "restore_backup", result |-> FALSE]
         /\ UNCHANGED <<transactions, file, engine, backups, now, nextId>>

\* FinanceManager.list_backups of finance_manager.py: every file of the directory
\* whose name ends in '.json'
fm_list_backups == SortedNamesDesc(DOMAIN backups)

\* should_backup as FinanceManager._check_backup of finance_manager.py computes it:
\* every .json file of the directory counts, and the third and fourth
\* '_'-separated parts of the greatest name are parsed (an IndexError when there
\* is no fourth part)
fm_should_backup(backup_interval) ==
    IF DOMAIN backups = {} THEN TRUE
    ELSE LET date_part == MaxName(DOMAIN backups).stamp
         IN  IF PartsOf(date_part) < 2 THEN TRUE
             ELSE IF StrptimeRaises(date_part, "%Y-%m-%d_%H-%M-%S") THEN TRUE
             ELSE days(now - strptime(date_part, "%Y-%m-%d_%H-%M-%S")) >= backup_interval

\* FinanceManager._check_backup of finance_manager.py
fm_check_backup(backup_interval) ==
    IF fm_should_backup(backup_interval)
    THEN fm_create_backup
    ELSE /\ lastOp' = [op |-> "_check_backup", result |-> FALSE]
         /\ UNCHANGED <<transactions, file, engine, backups, now, nextId>>

\* ------------------------------------------------------------------ the environment

\* a second of the clock passes
Tick ==
    /\ now < MaxClock
    /\ now' = now + 1
    /\ lastOp' = [op |-> "tick", result |-> TRUE]
    /\ UNCHANGED <<transactions, file, engine, backups, nextId>>

\* the label of a category that is no member of Category
UnknownLabel == "Lazer"

\* what somebody else can do to the data file: delete it, overwrite it with
\* something that is not JSON, or change one record's category to an unknown label
Damaged(f) ==
    {FileMissing, FileGarbage} \cup
    {[f EXCEPT !.transactions[i].category = UnknownLabel] : i \in 1..Len(f.transactions)}

DamageFile ==
    /\ file.state = "json"
    /\ \E f \in Damaged(file) : file' = f
    /\ lastOp' = [op |-> "damage", result |-> TRUE]
    /\ UNCHANGED <<transactions, engine, backups, now, nextId>>

\* ------------------------------------------------------------------ specification

\* FinanceManager.__init__ on a fresh installation: no data file, no backup
Init ==
    /\ transactions = <<>>
    /\ file = FileMissing
    /\ engine = NewEngine
    /\ backups = EmptyMap
    /\ now = 0
    /\ nextId = 0
    /\ lastOp = [op |-> "init", result |-> TRUE]

\* the store and its data file, on a disk that takes every write, within one
\* second of the clock; the backup directory is not touched (create_backup,
\* restore_backup and Tick belong to the specifications of the backup claims)
Next ==
    \/ \E in \in AddInputs : add_transaction(in, "written")
    \/ \E id \in IdInputs : remove_transaction(id, "written")
    \/ reload_data
    \/ persist("written")
    \/ DamageFile

Spec == Init /\ [][Next]_vars

\* the same for the FinanceManager of src/finance_manager.py
NextFM ==
    \/ \E in \in AddInputs : fm_add_transaction(in, "written")
    \/ \E id \in IdInputs : fm_remove_transaction(id, "written")
    \/ fm_init
    \/ persist("written")
    \/ DamageFile

SpecFM == Init /\ [][NextFM]_vars

\* ------------------------------------------------------------------ claims: vocabulary

Ids(txs) == {txs[i].id : i \in 1..Len(txs)}

RecordSet(txs) == {txs[i] : i \in 1..Len(txs)}

\* the list without its k-th record
DropAt(txs, k) == SubSeq(txs, 1, k - 1) \o SubSeq(txs, k + 1, Len(txs))

\* a call of add_transaction the specification accepts: a description that is not
\* empty, an amount above zero, a category of the transaction's kind
ValidInput(in) ==
    /\ strip(in.description) # <<>>
    /\ in.amount > 0
    /\ is_category_compatible(in.category, TransactionType[in.transaction_type])

\* the record lies within the dates given (a bound that is None does not apply)
InRange(t, start_date, end_date) ==
    /\ start_date = None \/ start_date[1] <= t.date
    /\ end_date = None \/ t.date <= end_date[1]

\* the place of the record with this id in the in-memory list
PlaceOf(id) == CHOOSE k \in 1..Len(transactions) : transactions[k].id = id

RECURSIVE SumAmounts(_)
SumAmounts(S) ==
    IF S = {} THEN 0
    ELSE LET k == CHOOSE x \in S : TRUE
         IN  transactions[k].amount + SumAmounts(S \ {k})

\* the places of the stored records of one kind within the dates given
PlacesOf(kind, start_date, end_date) ==
    {k \in 1..Len(transactions) :
        /\ transactions[k].transaction_type = kind
        /\ InRange(transactions[k], start_date, end_date)}

\* ------------------------------------------------------------------ claims C1 - C10

\* C1, first half: the ids of the stored transactions are pairwise distinct.
C1_IdsDistinct ==
    \A i, j \in 1..Len(transactions) :
        transactions[i].id = transactions[j].id => i = j

\* C1, second half: a step that is add_transaction with a valid input returns True,
\* and the unbounded listing afterwards holds exactly one record whose id was not in
\* the store before; that record carries the description, amount, kind and category
\* supplied; the records listed before are all still listed.
C1_AddStep ==
    \A in \in AddInputs :
        (ValidInput(in) /\ add_transaction(in, "written")) =>
            LET listed == ListBetween(transactions', None, None)
                fresh == {i \in 1..Len(listed) : listed[i].id \notin Ids(transactions)}
            IN  /\ lastOp'.result = TRUE
                /\ Cardinality(fresh) = 1
                /\ \A i \in fresh :
                      /\ listed[i].description = in.description
                      /\ listed[i].amount = in.amount
                      /\ listed[i].transaction_type = in.transaction_type
                      /\ listed[i].category = in.category
                /\ RecordSet(transactions) \subseteq RecordSet(listed)
                /\ Len(listed) = Len(transactions) + 1

\* C1: after add_transaction with a valid input the listing holds exactly one record
\* with the new id and the supplied fields, the new id differs from every id in the
\* store, and after any sequence of operations the ids are pairwise distinct.
C1_AddYieldsOneFreshRecord == [](C1_IdsDistinct) /\ [][C1_AddStep]_vars

C1_Witness ==
    /\ lastOp.op = "add_transaction"
    /\ Len(transactions) >= 2
    /\ transactions[Len(transactions)].amount > 0
    /\ transactions[Len(transactions)].description = PostoShell
    /\ transactions[Len(transactions)].category = "SALARIO"

\* C2: in every reachable state every stored transaction has an amount above zero.
C2_AmountsPositive ==
    \A i \in 1..Len(transactions) : transactions[i].amount > 0

\* C3: add_transaction with an amount that is not positive, or with an empty
\* description, does not return True, and leaves the in-memory list, the data file
\* and the suggestion index unchanged.
C3_InvalidAddRejected ==
    [][\A in \in AddInputs :
          ((in.amount <= 0 \/ in.description = <<>>) /\ add_transaction(in, "written")) =>
              /\ lastOp'.result = FALSE
              /\ UNCHANGED <<transactions, file, engine>>]_vars

\* C4: in every reachable state the category of every stored transaction is one of
\* its kind's categories, and add_transaction with a category of the other kind
\* changes nothing.
C4_CategoriesMatchKind ==
    /\ [](\A i \in 1..Len(transactions) :
            is_category_compatible(transactions[i].category,
                                   TransactionType[transactions[i].transaction_type]))
    /\ [][\A in \in AddInputs :
            (/\ ~is_category_compatible(in.category, TransactionType[in.transaction_type])
             /\ add_transaction(in, "written")) =>
                /\ lastOp'.result = FALSE
                /\ UNCHANGED <<transactions, file, engine>>]_vars

\* a call of remove_transaction, in either FinanceManager
RemoveCalled(id) == remove_transaction(id, "written") \/ fm_remove_transaction(id, "written")

\* C5: remove_transaction with an id that no stored transaction has returns False
\* and leaves the in-memory list, the data file and the suggestion index unchanged
\* (so any number of such calls in a row does).
C5_RemoveMissingIsNoOp ==
    [][\A id \in IdInputs :
          (id \notin Ids(transactions) /\ RemoveCalled(id)) =>
              /\ lastOp'.result = FALSE
              /\ UNCHANGED <<transactions, file, engine>>]_vars

\* C6: remove_transaction with an id in the store returns True and removes exactly
\* the record with that id: the list is one shorter, and is the list before without
\* that one place, so every other record (one equal in description, amount, kind and
\* category too) stays, unchanged and in the same order.
C6_RemoveTakesExactlyOne ==
    [][\A id \in IdInputs :
          (id \in Ids(transactions) /\ remove_transaction(id, "written")) =>
              /\ lastOp'.result = TRUE
              /\ Len(transactions') = Len(transactions) - 1
              /\ transactions' = DropAt(transactions, PlaceOf(id))]_vars

\* two stored records that differ in nothing but the id (and the date)
Twins(a, b) ==
    /\ a.id # b.id
    /\ a.description = b.description
    /\ a.amount = b.amount
    /\ a.transaction_type = b.transaction_type
    /\ a.category = b.category

\* a removal has just left two records behind that differ in nothing but the id
C6_Witness ==
    /\ lastOp.op = "remove_transaction"
    /\ lastOp.result = TRUE
    /\ Len(transactions) = 2
    /\ Twins(transactions[1], transactions[2])

\* C7: get_transactions(start, end) returns exactly the stored transactions within
\* the bounds given (both inclusive), latest date first, and records of equal date
\* in the order of the in-memory list.
C7_ListingFilteredAndOrdered ==
    \A start_date \in DateInputs, end_date \in DateInputs :
        LET listed == get_transactions(start_date, end_date)
        IN  /\ \A i \in 1..Len(listed) :
                  /\ listed[i] \in RecordSet(transactions)
                  /\ InRange(listed[i], start_date, end_date)
            /\ \A k \in 1..Len(transactions) :
                  InRange(transactions[k], start_date, end_date) =>
                      Cardinality({i \in 1..Len(listed) : listed[i] = transactions[k]}) = 1
            /\ \A i, j \in 1..Len(listed) :
                  i < j =>
                      /\ listed[i].date >= listed[j].date
                      /\ listed[i].date = listed[j].date =>
                              PlaceOf(listed[i].id) < PlaceOf(listed[j].id)

\* the store holds two records of one date and a later one added after them, and a
\* bound cuts a record off
C7_Witness ==
    /\ Len(transactions) = 3
    /\ transactions[1].date = transactions[2].date
    /\ transactions[3].date > transactions[1].date
    /\ Len(get_transactions(Some(1), None)) = 3
    /\ Len(get_transactions(Some(2), None)) = 1
    /\ get_transactions(None, None) = <<transactions[3], transactions[1], transactions[2]>>

\* C8: calculate_balance returns as income the sum of the amounts of the INCOME
\* transactions within the bounds, as expenses the sum of the EXPENSE ones, and as
\* balance income minus expenses; all three are 0 when nothing is within the bounds.
C8_BalanceIsSumByKind ==
    \A start_date \in DateInputs, end_date \in DateInputs :
        LET balance == calculate_balance(start_date, end_date)
            income == SumAmounts(PlacesOf("RECEITA", start_date, end_date))
            expense == SumAmounts(PlacesOf("DESPESA", start_date, end_date))
        IN  /\ balance.receitas = income
            /\ balance.despesas = expense
            /\ balance.saldo = income - expense
            /\ get_transactions(start_date, end_date) = <<>> =>
                   balance = [receitas |-> 0, despesas |-> 0, saldo |-> 0]

\* an income and two expenses are stored, and one bound leaves only the income
C8_Witness ==
    /\ calculate_balance(None, None) = [receitas |-> 1, despesas |-> 4, saldo |-> -3]
    /\ calculate_balance(None, Some(0)) = [receitas |-> 1, despesas |-> 0, saldo |-> 1]
    /\ calculate_balance(Some(2), Some(0)) = [receitas |-> 0, despesas |-> 0, saldo |-> 0]

\* the state save_data leaves: what load_data would read is the in-memory list
C9_SavedReadsBack ==
    lastOp.op = "save_data" => RecordSet(load_data(file)) = RecordSet(transactions)

\* C9: save_data followed at once by load_data leaves an in-memory list equal, as a
\* set of records, to the list before saving.
C9_SaveLoadRoundTrip ==
    /\ [](C9_SavedReadsBack)
    /\ [][(lastOp.op = "save_data" /\ reload_data) =>
              RecordSet(transactions') = RecordSet(transactions)]_vars

\* save_data has written a list of two records, one with notes and one without,
\* over a data file that held something else
C9_Witness ==
    /\ lastOp.op = "save_data"
    /\ Len(transactions) >= 2
    /\ \E i, j \in 1..Len(transactions) :
          transactions[i].notes = None /\ transactions[j].notes # None
    /\ load_data(file) = transactions

\* a data file json.load or from_dict cannot read: not JSON, or with a record whose
\* kind or category is no value of its enumeration or whose date is no ISO-8601 text
Unparseable(f) ==
    \/ f.state = "garbage"
    \/ /\ f.state = "json"
       /\ \E i \in 1..Len(f.transactions) :
             \/ f.transactions[i].transaction_type \notin {"receita", "despesa"}
             \/ f.transactions[i].category \notin {Category[m] : m \in DOMAIN Category}
             \/ f.transactions[i].date.text # "iso-8601"

\* C10: load_data returns normally whatever the data file holds; with the data file
\* missing, or unparseable (a single unparseable record is enough), the store is
\* empty afterwards; the load does not change the data file.
C10_LoadFallsBackToEmpty ==
    [][reload_data =>
          /\ lastOp'.result = TRUE
          /\ file' = file
          /\ (file.state = "missing" \/ Unparseable(file)) => transactions' = <<>>]_vars

\* a load has just emptied a store, reading a data file that holds two records of
\* which one is unparseable
C10_Witness ==
    /\ lastOp.op = "reload_data"
    /\ transactions = <<>>
    /\ file.state = "json"
    /\ Len(file.transactions) >= 2
    /\ Unparseable(file)

\* ------------------------------------------------------------------ specification: a disk that can fail

\* the valid calls among AddInputs
FaultInputs == {in \in AddInputs : ValidInput(in)}

\* the store on a disk where every write of the data file can fail, either before
\* or after open() has truncated the file
NextFaults ==
    \/ \E in \in FaultInputs, outcome \in WriteOutcomes : add_transaction(in, outcome)
    \/ \E id \in IdInputs, outcome \in WriteOutcomes : remove_transaction(id, outcome)

SpecFaults == Init /\ [][NextFaults]_vars

\* ------------------------------------------------------------------ specification: the suggestion engine

\* the data file holds at most MaxHistory records when the application starts
MaxHistory == 1

Posto == <<"P","o","s","t","o">>

ShellPosto == <<"S","h","e","l","l"," ","P","o","s","t","o">>

UberSpaced == <<" ","u","b","e","r"," ">>

\* the transactions the suggestion engine learns from: one description under two
\* spellings, kinds and amounts; one description under two categories; two
\* descriptions that share a keyword
EngineInputs ==
    {[description |-> Uber, amount |-> 25, transaction_type |-> "DESPESA",
      category |-> "TRANSPORTE", date |-> Some(1), notes |-> None],
     [description |-> UberSpaced, amount |-> 35, transaction_type |-> "RECEITA",
      category |-> "FREELANCE", date |-> Some(1), notes |-> None],
     [description |-> Posto, amount |-> 40, transaction_type |-> "DESPESA",
      category |-> "TRANSPORTE", date |-> Some(1), notes |-> None],
     [description |-> Posto, amount |-> 10, transaction_type |-> "DESPESA",
      category |-> "ALIMENTACAO", date |-> Some(1), notes |-> None],
     [description |-> ShellPosto, amount |-> 5, transaction_type |-> "DESPESA",
      category |-> "TRANSPORTE", date |-> Some(1), notes |-> None]}

\* the lists of records an earlier run can have left in the data file
Histories == UNION {[1..n -> EngineInputs] : n \in 0..MaxHistory}

\* the k-th record of the data file; its id is one an earlier run handed out
Stored(in, k) ==
    [id |-> 0 - k,
     description |-> in.description,
     amount |-> in.amount,
     transaction_type |-> in.transaction_type,
     category |-> in.category,
     date |-> in.date[1],
     notes |-> in.notes]

\* FinanceManager.__init__ on an installation an earlier run has left its data
\* file on: load_data, then update_suggestions
InitEngine ==
    \E history \in Histories :
        LET loaded == [k \in 1..Len(history) |-> Stored(history[k], k)]
        IN  /\ transactions = loaded
            /\ file = IF loaded = <<>> THEN FileMissing ELSE Document(loaded, 0)
            /\ engine = update_suggestions(NewEngine, loaded, 0)
            /\ backups = EmptyMap
            /\ now = 0
            /\ nextId = 0
            /\ lastOp = [op |-> "init", result |-> TRUE]

\* the engine learns from a growing list: transactions are added
NextEngine == \E in \in EngineInputs : add_transaction(in, "written")

SpecEngine == InitEngine /\ [][NextEngine]_vars

\* ------------------------------------------------------------------ specification: backups

\* the call of add_transaction the backup specification makes
BackupInputs ==
    {[description |-> Uber, amount |-> 2, transaction_type |-> "DESPESA",
      category |-> "TRANSPORTE", date |-> Some(1), notes |-> None]}

\* the file names restore_backup is called with: those the restore dialog offers
\* (the entries of list_backups), and one that is not in the directory
RestoreInputs == BackupFiles \cup {NoSuchBackup}

\* add_transaction is called at most MaxBackupAdds times under the backup specification
MaxBackupAdds == 2

\* the backup directory holds at most MaxFiles files
MaxFiles == 2

\* the directory has room for a file of that name (or holds one already)
DirKeeps(name) == Cardinality((DOMAIN backups) \cup {name}) <= MaxFiles

\* the store, its data file and the backup directory on a disk that takes every
\* write, while the clock runs
NextBackup ==
    \/ nextId < MaxBackupAdds /\ \E in \in BackupInputs : add_transaction(in, "written")
    \/ \E id \in IdInputs : remove_transaction(id, "written")
    \/ DirKeeps(BackupName(now)) /\ create_backup
    \/ DirKeeps(PreRestoreName(now)) /\ \E name \in RestoreInputs : restore_backup(name, "written")
    \/ reload_data
    \/ Tick

SpecBackup == Init /\ [][NextBackup]_vars

\* the same for the FinanceManager of src/finance_manager.py; its restore dialog
\* offers every entry of its list_backups
NextFMBackup ==
    \/ nextId < MaxBackupAdds /\ \E in \in BackupInputs : fm_add_transaction(in, "written")
    \/ \E id \in IdInputs : fm_remove_transaction(id, "written")
    \/ DirKeeps(BackupName(now)) /\ fm_create_backup
    \/ /\ DirKeeps(CurrentBackupName(now))
       /\ \E name \in (DOMAIN backups) \cup {NoSuchBackup} : fm_restore_backup(name)
    \/ Tick

SpecFMBackup == Init /\ [][NextFMBackup]_vars

\* the store and its backups on a disk where every write of the data file and the
\* safety copy of restore_backup can fail, either before or after the destination
\* has been created or truncated
NextBackupFaults ==
    \/ nextId < MaxBackupAdds /\
           \E in \in BackupInputs, outcome \in WriteOutcomes : add_transaction(in, outcome)
    \/ \E id \in IdInputs, outcome \in WriteOutcomes : remove_transaction(id, outcome)
    \/ DirKeeps(BackupName(now)) /\ create_backup
    \/ DirKeeps(PreRestoreName(now)) /\
           \E name \in RestoreInputs, outcome \in WriteOutcomes : restore_backup(name, outcome)
    \/ Tick

SpecBackupFaults == Init /\ [][NextBackupFaults]_vars

\* ------------------------------------------------------------------ specification: the automatic backup

\* the clock of a start of the application is up to two days and a tick after the
\* oldest backup
MaxAutoClock == 2 * TicksPerDay + 1

\* backup_interval_days
IntervalInputs == 1..2

\* the data file an earlier run has left: none, or one record
AutoFiles == {FileMissing, Document(<<Stored(CHOOSE in \in BackupInputs : TRUE, 1)>>, 0)}

\* a name under the backup prefix that carries no timestamp
ForeignName(text) == [prefix |-> "financial_data_", stamp |-> [text |-> text, ticks |-> 0]]

\* the backup directories a start finds: empty; one backup; two backups; a backup
\* and a file somebody named financial_data_copy.json or
\* financial_data_old_copy.json; only a safety copy of a restore; a backup and a
\* safety copy of finance_manager.py
AutoDirs ==
    LET old == Document(<<>>, 0)
    IN  {EmptyMap,
         Put(EmptyMap, BackupName(0), old),
         Put(Put(EmptyMap, BackupName(0), old), BackupName(TicksPerDay), old),
         Put(Put(EmptyMap, BackupName(0), old), ForeignName("copy"), old),
         Put(Put(EmptyMap, BackupName(0), old), ForeignName("old_copy"), old),
         Put(EmptyMap, PreRestoreName(0), old),
         Put(Put(EmptyMap, BackupName(0), old), CurrentBackupName(1), old)}

\* FinanceManager.__init__ up to its call of _check_backup: load_data, then
\* update_suggestions
InitAuto ==
    \E f \in AutoFiles, dir \in AutoDirs, clock \in 0..MaxAutoClock :
        /\ file = f
        /\ transactions = load_data(f)
        /\ engine = update_suggestions(NewEngine, load_data(f), clock)
        /\ backups = dir
        /\ now = clock
        /\ nextId = 0
        /\ lastOp = [op |-> "init", result |-> TRUE]

NextAuto == \E backup_interval \in IntervalInputs : _check_backup(backup_interval)

SpecAuto == InitAuto /\ [][NextAuto]_vars

\* the same for the FinanceManager of src/finance_manager.py
NextFMAuto == \E backup_interval \in IntervalInputs : fm_check_backup(backup_interval)

SpecFMAuto == InitAuto /\ [][NextFMAuto]_vars

\* ------------------------------------------------------------------ claims: the suggestion index

\* the four indexes of an engine (last_update left aside)
IndexOf(eng) ==
    [category_patterns |-> eng.category_patterns,
     description_history |-> eng.description_history,
     amount_patterns |-> eng.amount_patterns,
     word_frequency |-> eng.word_frequency]

\* the index a rebuild from the list txs produces: every transaction of txs learnt
\* by an engine that has learnt nothing else
RebuiltFrom(txs) == IndexOf(LearnAll(NewEngine, txs))

\* ------------------------------------------------------------------ claims C11 - C20

\* the writes that fail
FailedWrites == WriteOutcomes \ {"written"}

\* C11: when the write of the data file fails during add or remove, the operation
\* returns normally (True), the in-memory list has the added record, or lacks the
\* removed one, the suggestion index is the one rebuilt from that list, and the data
\* file has the content it had before.
C11_FailedWriteStep ==
    /\ \A in \in FaultInputs, outcome \in FailedWrites :
          add_transaction(in, outcome) =>
              /\ lastOp'.result = TRUE
              /\ Len(transactions') = Len(transactions) + 1
              /\ SubSeq(transactions', 1, Len(transactions)) = transactions
              /\ transactions'[Len(transactions')].description = in.description
              /\ IndexOf(engine') = RebuiltFrom(transactions')
              /\ file' = file
    /\ \A id \in IdInputs, outcome \in FailedWrites :
          (id \in Ids(transactions) /\ remove_transaction(id, outcome)) =>
              /\ lastOp'.result = TRUE
              /\ id \notin Ids(transactions')
              /\ IndexOf(engine') = RebuiltFrom(transactions')
              /\ file' = file

C11_FailedWriteKeepsMemoryAndFile == [][C11_FailedWriteStep]_vars

\* C12: after every completed store mutation (an add, a remove of an id in the
\* store), in any sequence of operations, the suggestion index equals the index a
\* rebuild from the store's current list produces, an empty list included.
C12_IndexMatchesStore ==
    (lastOp.op \in {"add_transaction", "remove_transaction"} /\ lastOp.result = TRUE) =>
        IndexOf(engine) = RebuiltFrom(transactions)

\* the lists update_suggestions is called with: the empty list, the store's list
\* and each of its prefixes
ListInputs == {SubSeq(transactions, 1, k) : k \in 0..Len(transactions)}

\* C13: update_suggestions is a function of its argument only: for every list L,
\* the empty list included, and every index state before the call, the index
\* after update_suggestions(L) is the index rebuilt from L alone.
C13_RebuildForgetsPriorIndex ==
    \A L \in ListInputs :
        IndexOf(update_suggestions(engine, L, now)) = RebuiltFrom(L)

\* the index is the one rebuilt from the list (no list is emptied under SpecEngine)
IndexIsRebuilt == IndexOf(engine) = RebuiltFrom(transactions)

\* the descriptions the engine is asked about
Ipiranga == <<"p","o","s","t","o"," ","i","p","i","r","a","n","g","a">>

ManyWords == <<"P","o","s","t","o"," ","c","a","r","r","o"," ","l","o","j","a"," ","n","o","v","a">>

\* one keyword, four times
Repeated == Posto \o <<" ">> \o Posto \o <<" ">> \o Posto \o <<" ">> \o Posto

QueryInputs ==
    {Uber, UberSpaced, lower(Uber), Posto, ShellPosto, PostoShell, Ipiranga, ManyWords,
     Repeated, <<>>}

\* the places of the transactions whose trimmed, lower-cased description is that of d
PlacesDescribed(d) ==
    {k \in 1..Len(transactions) :
        strip(lower(transactions[k].description)) = strip(lower(d))}

KindInputs == {"receita", "despesa"}

\* the places of the transactions of that kind value and category whose description
\* has the keyword
PlacesVoting(word, category, kind) ==
    {k \in 1..Len(transactions) :
        /\ TransactionType[transactions[k].transaction_type] = kind
        /\ transactions[k].category = category
        /\ word \in KeywordSet(extract_keywords(strip(lower(transactions[k].description))))}

\* the votes of the list's transactions for a category, over the keywords of d
Votes(d, category, kind) ==
    Cardinality({<<k, w>> \in (1..Len(transactions)) \X KeywordSet(extract_keywords(d)) :
                    k \in PlacesVoting(w, category, kind)})

\* C15, the example: with "posto" in three expenses of category Transporte and in
\* one of category Alimentacao, suggest_category("posto shell", "despesa") returns
\* Transporte.
C15_Example ==
    (/\ Cardinality(PlacesVoting(lower(Posto), "TRANSPORTE", "despesa")) = 3
     /\ Cardinality(PlacesVoting(lower(Posto), "ALIMENTACAO", "despesa")) = 1)
        => suggest_category(engine, lower(PostoShell), "despesa") = Some("TRANSPORTE")

\* C15: suggest_category returns the compatible category with the highest vote
\* count for the query's keywords; in the example, in any order of insertion, it
\* returns Transporte.
C15_HighestVoteWins ==
    /\ \A d \in QueryInputs, kind \in KindInputs :
          LET suggested == suggest_category(engine, d, kind)
          IN  suggested # None =>
                  \A c \in DOMAIN Category :
                      is_category_compatible(c, kind) =>
                          Votes(d, c, kind) <= Votes(d, suggested[1], kind)
    /\ C15_Example

\* the category is one of the kind's categories: an income category for "receita",
\* any other category for any other kind
OfKind(category, kind) == (kind = "receita") <=> (category \in receita_categories)

\* a keyword of d has a recorded vote for a category of the kind
HasVoteOfKind(d, kind) ==
    \E w \in KeywordSet(extract_keywords(d)) :
        /\ w \in DOMAIN engine.category_patterns
        /\ \E i \in 1..Len(engine.category_patterns[w]) :
              OfKind(engine.category_patterns[w][i], kind)

\* C16: for every index state, description and kind, suggest_category never returns
\* a category incompatible with the requested kind, and returns none exactly when no
\* keyword of the description has a recorded vote for a category compatible with it.
C16_SuggestedCategoryIsOfKind ==
    \A d \in QueryInputs, kind \in KindInputs :
        LET suggested == suggest_category(engine, d, kind)
        IN  /\ suggested # None => OfKind(suggested[1], kind)
            /\ suggested = None <=> ~HasVoteOfKind(d, kind)

\* "uber" has votes for an income and for an expense category, recorded in that
\* order, and "posto" only for an expense category: each kind gets its own category
\* for "uber", and an income gets none for "posto"
C16_Witness ==
    /\ Get(engine.category_patterns, lower(Uber), <<>>) = <<"FREELANCE", "TRANSPORTE">>
    /\ suggest_category(engine, Uber, "despesa") = Some("TRANSPORTE")
    /\ suggest_category(engine, Uber, "receita") = Some("FREELANCE")
    /\ lower(Posto) \in DOMAIN engine.category_patterns
    /\ suggest_category(engine, Posto, "receita") = None
    /\ suggest_category(engine, Posto, "despesa") # None
    /\ suggest_category(engine, <<>>, "despesa") = None

\* the partial texts typed into the description field, and the limits asked for
PartialInputs == {<<"s">>, <<"S">>, <<"P","o">>, <<"u">>, <<"o">>, <<"x">>, <<"o"," ">>}

LimitInputs == 0..3

\* the places of the transactions of that kind value whose trimmed, lower-cased
\* description is d
PlacesCarrying(d, kind) ==
    {k \in 1..Len(transactions) :
        /\ TransactionType[transactions[k].transaction_type] = kind
        /\ strip(lower(transactions[k].description)) = d}

\* where the list first has a transaction of that kind with that description
FirstPlace(d, kind) ==
    CHOOSE k \in PlacesCarrying(d, kind) : \A j \in PlacesCarrying(d, kind) : k <= j

\* s begins with p
BeginsWith(s, p) == Len(p) <= Len(s) /\ \A i \in 1..Len(p) : s[i] = p[i]

\* C17: for a non-empty partial_text, get_description_suggestions(partial_text, kind,
\* limit) returns a sequence without duplicates of length at most limit; every entry
\* is (in title case) a description of the given kind that contains the lower-cased
\* partial_text; every description beginning with it precedes every description that
\* only contains it; within each group the order is that of first encounter in the
\* transaction list.
C17_PrefixMatchesFirst ==
    \A partial_text \in PartialInputs, kind \in KindInputs, limit \in LimitInputs :
        LET listed == get_description_suggestions(engine, partial_text, kind, limit)
            wanted == lower(partial_text)
        IN  /\ Len(listed) <= limit
            /\ \A i, j \in 1..Len(listed) : listed[i] = listed[j] => i = j
            /\ \A i \in 1..Len(listed) :
                  /\ PlacesCarrying(lower(listed[i]), kind) # {}
                  /\ substring_in(wanted, lower(listed[i]))
            /\ \A i, j \in 1..Len(listed) :
                  i < j =>
                      /\ BeginsWith(lower(listed[j]), wanted)
                             => BeginsWith(lower(listed[i]), wanted)
                      /\ (BeginsWith(lower(listed[i]), wanted)
                              <=> BeginsWith(lower(listed[j]), wanted))
                             => FirstPlace(lower(listed[i]), kind)
                                    < FirstPlace(lower(listed[j]), kind)

\* "posto" was entered before "shell posto", both as expenses: for "S" the
\* description beginning with it comes first, for "o" the two come in the order of
\* entry, and a limit of 1 leaves the first only
C17_Witness ==
    /\ PlacesCarrying(lower(Posto), "despesa") # {}
    /\ PlacesCarrying(lower(ShellPosto), "despesa") # {}
    /\ FirstPlace(lower(Posto), "despesa") < FirstPlace(lower(ShellPosto), "despesa")
    /\ get_description_suggestions(engine, <<"S">>, "despesa", 3) = <<ShellPosto, Posto>>
    /\ get_description_suggestions(engine, <<"o">>, "despesa", 3) = <<Posto, ShellPosto>>
    /\ get_description_suggestions(engine, <<"S">>, "despesa", 1) = <<ShellPosto>>
    /\ get_description_suggestions(engine, <<"S">>, "receita", 3) = <<>>

\* the distinct trimmed, lower-cased descriptions of the transactions of that kind
DescriptionsOf(kind) ==
    {strip(lower(transactions[k].description)) :
        k \in {j \in 1..Len(transactions) :
                  TransactionType[transactions[j].transaction_type] = kind}}

\* the number of transactions of that kind carrying the description
Frequency(d, kind) == Cardinality(PlacesCarrying(d, kind))

\* d comes before e in the ranking by frequency: it is carried by more
\* transactions, or by as many and was encountered first
RanksBefore(d, e, kind) ==
    \/ Frequency(d, kind) > Frequency(e, kind)
    \/ /\ Frequency(d, kind) = Frequency(e, kind)
       /\ FirstPlace(d, kind) < FirstPlace(e, kind)

\* C18: for an empty partial_text, get_description_suggestions returns the limit
\* most frequent distinct descriptions of the given kind, a description's frequency
\* being the number of transactions of that kind carrying it: a description in more
\* transactions precedes one in fewer, and equal frequencies are in the order of
\* first encounter.
C18_MostFrequentFirst ==
    \A kind \in KindInputs, limit \in LimitInputs :
        LET listed == get_description_suggestions(engine, <<>>, kind, limit)
            shown == {lower(listed[i]) : i \in 1..Len(listed)}
        IN  /\ shown \subseteq DescriptionsOf(kind)
            /\ Len(listed) = IF limit < Cardinality(DescriptionsOf(kind))
                             THEN limit ELSE Cardinality(DescriptionsOf(kind))
            /\ \A i, j \in 1..Len(listed) :
                  i < j => RanksBefore(lower(listed[i]), lower(listed[j]), kind)
            /\ \A d \in shown, e \in DescriptionsOf(kind) \ shown : RanksBefore(d, e, kind)

\* C19, the last part: each entry's category and amount are suggest_category and
\* suggest_amount of the entry's description.
C19_EntriesCarrySuggestions ==
    \A kind \in KindInputs, limit \in LimitInputs :
        LET listed == get_popular_transactions(engine, kind, limit)
        IN  \A i \in 1..Len(listed) :
                /\ listed[i].category = suggest_category(engine, listed[i].description, kind)
                /\ listed[i].amount = suggest_amount(engine, listed[i].description)

\* C19: get_popular_transactions(kind, limit) returns at most limit entries, one per
\* distinct description of that kind, ranked by occurrence count, highest first, ties
\* in first-seen order; each entry's frequency is the number of transactions of that
\* kind with that description, and its category and amount are suggest_category and
\* suggest_amount of the same description.
C19_PopularRankedByCount ==
    /\ C19_EntriesCarrySuggestions
    /\ \A kind \in KindInputs, limit \in LimitInputs :
          LET listed == get_popular_transactions(engine, kind, limit)
          IN  /\ Len(listed) <= limit
              /\ \A i \in 1..Len(listed) :
                    /\ lower(listed[i].description) \in DescriptionsOf(kind)
                    /\ listed[i].frequency = Frequency(lower(listed[i].description), kind)
              /\ \A i, j \in 1..Len(listed) :
                    i < j => RanksBefore(lower(listed[i].description),
                                         lower(listed[j].description), kind)

\* the keywords of a description, as the index sees it
KeywordsOf(d) == extract_keywords(strip(lower(d)))

\* the number of keywords two keyword lists have in common, and the larger of
\* their numbers of keywords
CommonCount(keywords, others) == Cardinality(KeywordSet(keywords) \cap KeywordSet(others))

LargerCount(keywords, others) == Max(Len(keywords), Len(others))

\* the keywords of each transaction of the list
StoredKeywords == [k \in 1..Len(transactions) |-> KeywordsOf(transactions[k].description)]

\* the places of the transactions whose description is similar to d: the quotient
\* CommonCount / LargerCount is defined and above 0.3 (that is, above 3/10)
PlacesSimilar(d) ==
    LET keywords == KeywordsOf(d)
        stored == StoredKeywords
    IN  {k \in 1..Len(transactions) :
            /\ LargerCount(keywords, stored[k]) > 0
            /\ 10 * CommonCount(keywords, stored[k]) > 3 * LargerCount(keywords, stored[k])}

RECURSIVE SumTotals(_)
SumTotals(totals) ==
    IF DOMAIN totals = {} THEN 0
    ELSE LET label == CHOOSE x \in DOMAIN totals : TRUE
         IN  totals[label] + SumTotals([x \in (DOMAIN totals) \ {label} |-> totals[x]])

\* the places of the stored records of one kind and category within the dates given
PlacesOfCategory(kind, category, start_date, end_date) ==
    {k \in PlacesOf(kind, start_date, end_date) : transactions[k].category = category}

\* C30, without its last part: the totals of the income map add up to the income
\* of calculate_balance, those of the expense map to its expenses, and each map
\* entry is the sum of the amounts of the transactions of that kind and category.
C30_SummaryAddsUp ==
    \A start_date \in DateInputs, end_date \in DateInputs :
        LET summary == get_category_summary(start_date, end_date)
            balance == calculate_balance(start_date, end_date)
            Entry(kind, totals) ==
                \A category \in DOMAIN Category :
                    LET places == PlacesOfCategory(kind, category, start_date, end_date)
                    IN  /\ places # {} => /\ Category[category] \in DOMAIN totals
                                          /\ totals[Category[category]] = SumAmounts(places)
                        /\ places = {} => Category[category] \notin DOMAIN totals
        IN  /\ SumTotals(summary.receitas) = balance.receitas
            /\ SumTotals(summary.despesas) = balance.despesas
            /\ Entry("RECEITA", summary.receitas)
            /\ Entry("DESPESA", summary.despesas)

\* C30: for every store state and every (start, end), get_category_summary agrees
\* with calculate_balance over the same filter, every transaction's amount is
\* counted in exactly one map entry, that of its own category in the map of its own
\* kind, and no category appears with a total of 0.
C30_SummaryAgreesWithBalance ==
    /\ C30_SummaryAddsUp
    /\ \A start_date \in DateInputs, end_date \in DateInputs :
          LET summary == get_category_summary(start_date, end_date)
          IN  /\ \A label \in DOMAIN summary.receitas : summary.receitas[label] # 0
              /\ \A label \in DOMAIN summary.despesas : summary.despesas[label] # 0

\* C21: create_backup returns failure and creates no file in the backup directory
\* when the data file does not exist; when it succeeds the directory has a file
\* named financial_data_<YYYY-MM-DD_HH-MM-SS>.json, of the current second, whose
\* content is the data file's, and no other file of the directory has changed; the
\* data file, the in-memory transactions and the suggestion index are unchanged.
C21_CreateBackupStep ==
    create_backup =>
        /\ file.state = "missing" =>
              /\ lastOp'.result = FALSE
              /\ backups' = backups
        /\ file.state # "missing" => lastOp'.result = TRUE
        /\ lastOp'.result = TRUE =>
              /\ DOMAIN backups' = (DOMAIN backups) \cup {BackupName(now)}
              /\ backups'[BackupName(now)] = file
              /\ \A name \in (DOMAIN backups) \ {BackupName(now)} :
                    backups'[name] = backups[name]
        /\ UNCHANGED <<file, transactions, engine>>

C21_CreateBackupCopiesDataFile == [][C21_CreateBackupStep]_vars

\* create_backup has just copied a data file that holds a record, into a
\* directory that held a backup of an earlier second
C21_Witness ==
    /\ lastOp = [op |-> "create_backup", result |-> TRUE]
    /\ file.state = "json"
    /\ Len(file.transactions) >= 1
    /\ BackupName(now) \in DOMAIN backups
    /\ backups[BackupName(now)] = file
    /\ \E name \in BackupFiles : name.stamp.ticks < now

\* C22: create_backup never overwrites an existing backup: in any sequence of
\* operations (two create_backup calls within one clock second with a data
\* mutation in between included), a backup file, once written, stays in the
\* directory with the content it was written with.
C22_BackupsNeverChange ==
    [][\A name \in BackupFiles :
          /\ name \in DOMAIN backups'
          /\ backups'[name] = backups[name]]_vars

\* a listing of backups is in descending order of file name and newest first, holds
\* every backup create_backup has left in the directory, and no safety copy that a
\* restore made
NewestFirst(listed) ==
    /\ \A i, j \in 1..Len(listed) : i < j => NameBefore(listed[j], listed[i])
    /\ \A i, j \in 1..Len(listed) :
          (i < j /\ listed[i].prefix = "financial_data_" /\ listed[j].prefix = "financial_data_")
              => listed[i].stamp.ticks > listed[j].stamp.ticks
    /\ \A name \in DOMAIN backups :
          name.prefix = "financial_data_" => \E i \in 1..Len(listed) : listed[i] = name
    /\ \A i \in 1..Len(listed) : listed[i].prefix \notin {"pre_restore_", "current_backup_"}

\* C23 for src/main.py
C23_MainListsNewestFirst == NewestFirst(list_backups)

\* C23: list_backups returns the backups sorted by file name, descending, which is
\* newest first: of two listed backups the one create_backup made later comes
\* earlier; the safety copies made before a restore are not listed.
C23_ListedNewestFirst == NewestFirst(fm_list_backups)

\* C24: restore_backup called with a file name that is not in the backup directory
\* returns False and leaves the data file, the backup directory, the in-memory
\* transactions and the suggestion index unchanged.
C24_RestoreUnknownIsNoOp ==
    [][\A name \in RestoreInputs :
          (name \notin DOMAIN backups /\ restore_backup(name, "written")) =>
              /\ lastOp'.result = FALSE
              /\ UNCHANGED <<file, backups, transactions, engine>>]_vars

\* a restore of an unknown name has just returned False, with a record in the
\* store and a backup in the directory
C24_Witness ==
    /\ lastOp = [op |-> "restore_backup", result |-> FALSE]
    /\ Len(transactions) >= 1
    /\ load_data(file) = transactions
    /\ BackupFiles # {}
    /\ NoSuchBackup \notin DOMAIN backups

\* the transactions a file records
RecordsOf(f) == [i \in 1..Len(f.transactions) |-> from_dict(f.transactions[i])]

\* C25: after a restore_backup that returns True the data file's content is the
\* backup's, the in-memory list is the list of the transactions recorded in that
\* backup, and the pre_restore_<timestamp> file holds the content the data file
\* had before the restore (the safety copy is taken before the data file is
\* overwritten, the store is reloaded after).
C25_RestoreStep ==
    \A name \in RestoreInputs :
        (restore_backup(name, "written") /\ lastOp'.result = TRUE) =>
            /\ file' = backups[name]
            /\ transactions' = RecordsOf(backups[name])
            /\ file.state # "missing" =>
                  /\ PreRestoreName(now) \in DOMAIN backups'
                  /\ backups'[PreRestoreName(now)] = file
            /\ backups'[name] = backups[name]

C25_RestoreTakesBackupContent == [][C25_RestoreStep]_vars

\* a restore has just replaced a data file that held no record by a backup that
\* holds one, and the safety copy holds the empty list
C25_Witness ==
    /\ lastOp = [op |-> "restore_backup", result |-> TRUE]
    /\ Len(transactions) = 1
    /\ file.state = "json"
    /\ RecordsOf(file) = transactions
    /\ PreRestoreName(now) \in DOMAIN backups
    /\ backups[PreRestoreName(now)].state = "json"
    /\ backups[PreRestoreName(now)].transactions = <<>>
    /\ \E name \in BackupFiles : backups[name] = file

\* C26: when the copy of the data file to pre_restore_<timestamp> raises, the
\* restore still proceeds: the data file is overwritten with the backup's
\* content, the store is reloaded and restore_backup returns True.
C26_RestoreSurvivesFailedSnapshot ==
    [][\A name \in RestoreInputs, outcome \in FailedWrites :
          (/\ name \in DOMAIN backups
           /\ file.state # "missing"
           /\ restore_backup(name, outcome)) =>
              /\ lastOp'.result = TRUE
              /\ file' = backups[name]
              /\ transactions' = RecordsOf(backups[name])]_vars

\* what the code does instead: a failed safety copy ends the restore, which returns
\* False with the data file and the in-memory list as they were
C26_FailedSnapshotAbortsRestore ==
    [][\A name \in RestoreInputs, outcome \in FailedWrites :
          (/\ name \in DOMAIN backups
           /\ file.state # "missing"
           /\ restore_backup(name, outcome)) =>
              /\ lastOp'.result = FALSE
              /\ UNCHANGED <<file, transactions, engine>>]_vars

\* the age of the greatest backup file name, in ticks, when its timestamp parses
LatestAge == now - MaxName(BackupFiles).stamp.ticks

LatestParses == MaxName(BackupFiles).stamp.text = "%Y-%m-%d_%H-%M-%S"

\* this step has written the data file to the backup named after the present second
BackupCreated ==
    /\ lastOp' = [op |-> "create_backup", result |-> TRUE]
    /\ BackupName(now) \in DOMAIN backups'
    /\ backups'[BackupName(now)] = file

\* C27: _check_backup with interval n decides "due" when no backup exists, when
\* the timestamp of the greatest backup file name is more than n days before
\* now, and when that timestamp cannot be parsed; it decides "not due" when the
\* timestamp is less than n days before now; a backup is created exactly when
\* the decision is "due" and the data file exists.
C27_CheckBackupStep ==
    \A n \in IntervalInputs :
        _check_backup(n) =>
            /\ BackupFiles = {} => should_backup(n)
            /\ BackupFiles # {} /\ ~LatestParses => should_backup(n)
            /\ BackupFiles # {} /\ LatestParses /\ LatestAge > n * TicksPerDay =>
                  should_backup(n)
            /\ BackupFiles # {} /\ LatestParses /\ LatestAge < n * TicksPerDay =>
                  ~should_backup(n)
            /\ BackupCreated <=> (should_backup(n) /\ file.state # "missing")
            /\ ~BackupCreated => UNCHANGED backups
            /\ UNCHANGED <<file, transactions, engine>>

C27_BackupWhenDue == [][C27_CheckBackupStep]_vars

\* an automatic backup has just been made next to one that is more than a day old
C27_Witness ==
    /\ lastOp = [op |-> "create_backup", result |-> TRUE]
    /\ BackupName(now) \in DOMAIN backups
    /\ backups[BackupName(now)] = file
    /\ \E old \in BackupFiles :
          /\ old.stamp.text = "%Y-%m-%d_%H-%M-%S"
          /\ now - old.stamp.ticks > TicksPerDay
          /\ \A other \in BackupFiles \ {BackupName(now)} : other = old \/ NameBefore(other, old)

\* the same for _check_backup of finance_manager.py, where every file of the
\* backup directory counts as a backup
C27_FMBackupWhenDue ==
    [][\A n \in IntervalInputs :
          fm_check_backup(n) =>
              LET latest == MaxName(DOMAIN backups)
                  parses == latest.stamp.text = "%Y-%m-%d_%H-%M-%S"
                  age == now - latest.stamp.ticks
              IN  /\ DOMAIN backups = {} => fm_should_backup(n)
                  /\ DOMAIN backups # {} /\ ~parses => fm_should_backup(n)
                  /\ DOMAIN backups # {} /\ parses /\ age > n * TicksPerDay =>
                        fm_should_backup(n)
                  /\ DOMAIN backups # {} /\ parses /\ age < n * TicksPerDay =>
                        ~fm_should_backup(n)
                  /\ BackupCreated <=> (fm_should_backup(n) /\ file.state # "missing")
                  /\ ~BackupCreated => UNCHANGED backups]_vars

\* C28: a backup that create_backup has made in a state with transaction list L
\* holds L; no operation but a create_backup of the same second changes it;
\* restore_backup of its name returns True and leaves the in-memory list and the
\* data file's transactions equal to what the backup holds. Together: backup,
\* any adds and removes, restore gives L back.
C28_RoundTripStep ==
    /\ (create_backup /\ lastOp'.result = TRUE) =>
           RecordsOf(backups'[BackupName(now)]) = transactions
    /\ \A name \in BackupFiles :
           /\ lastOp'.op # "create_backup" =>
                 /\ name \in DOMAIN backups'
                 /\ backups'[name] = backups[name]
           /\ restore_backup(name, "written") =>
                 /\ lastOp'.result = TRUE
                 /\ transactions' = RecordsOf(backups[name])
                 /\ RecordsOf(file') = RecordsOf(backups[name])

C28_BackupRestoreRoundTrip == [][C28_RoundTripStep]_vars

\* C29: on a disk that takes every write and with a data file that parses, after
\* each completed add, remove, reload and restore the transactions recorded in
\* the data file are the in-memory transactions, same records in the same order
\* (with no data file yet, both are empty).
C29_FileAgreesWithMemory == RecordsOf(file) = transactions

\* a remove has just left one of two records, in memory and in the data file
C29_Witness ==
    /\ lastOp = [op |-> "remove_transaction", result |-> TRUE]
    /\ file.state = "json"
    /\ Len(file.transactions) = 1
    /\ Len(transactions) = 1
    /\ nextId = 2

\* the same step by step for every input of the store's specification, which
\* damages the data file between operations: an operation that starts with a
\* readable data file that agrees with the memory ends with one that does
C29_OperationsKeepAgreement ==
    [][(/\ lastOp'.op # "damage"
        /\ file.state # "garbage"
        /\ \A i \in 1..Len(file.transactions) : ~FromDictRaises(file.transactions[i])
        /\ RecordsOf(file) = transactions) =>
            /\ file'.state # "garbage"
            /\ RecordsOf(file') = transactions']_vars

====
